---- MODULE Spec2Model ----
(***************************************************************************)
(* Follow-state synchronisation of the follow buttons                      *)
(* (components/shared/FollowButton.tsx, FollowingQueries.tsx) and of the   *)
(* tabs that list followers and followed items (EditProfilePage).          *)
(*                                                                         *)
(* One step of the model is one task of the UI event loop: a user event    *)
(* with everything its handler runs before its first real suspension, the  *)
(* settlement of a caller-supplied hook, the store applying or rejecting a  *)
(* write, the store evaluating a query, or a query response being          *)
(* delivered to its .then callback.                                        *)
(***************************************************************************)
EXTENDS Integers, Sequences, FiniteSets, TLC

VARIABLES
  uid,           \* useAuth().user?.uid of the session, or Absent
  store,         \* path user -> set of documents [id, data]
  writeQ,        \* writes issued to the store and not yet settled; the store client
                 \* settles them in issue order
  followStatus,  \* FollowContext: partial map topicName -> BOOLEAN
  buttons,       \* button instance -> its props and showModal, or NotMounted
  toggles,       \* every toggleFollow call so far, in call order: what it was and how far it is
  awaiting,      \* the caller hooks (onFollow / onUnfollow) called and not yet settled
  queries,       \* button instance -> the TopicQuery its mount effect issued
  followersTab,  \* EditProfilePage/FollowersTab.tsx: its state, its RPC, the parent's count
  followingTab,  \* EditProfilePage/FollowingTab.tsx: its two lists, its rows, its listing queries
  peerTab        \* the peer-follow FollowersTab: its two queries, followers, iFollowSet

tabVars == <<followersTab, followingTab, peerTab>>

vars == <<uid, store, writeQ, followStatus, buttons, toggles, awaiting, queries, tabVars>>

----------------------------------------------------------------------------
(* Bounds *)

MaxButtons == 2
MaxToggles == 2

----------------------------------------------------------------------------
(* Values *)

Absent == "<absent>"
UserIds == {"u1"}
NotMounted == [mounted |-> FALSE]
NoData == [none |-> TRUE]

\* `${uid}` in a template literal: an absent uid prints as "undefined"
Template(u) == IF u = Absent THEN "undefined" ELSE u

Paths == {Template(u) : u \in UserIds \cup {Absent}}

BillItems == [court : {193}, billId : {"H100"}]
UserItems == [profileId : {"p1"}]

\* faulty variant of BillTopicName: billId and court exchanged
BillTopicNameSwapped(item) == "bill-" \o item.billId \o "-" \o ToString(item.court)

\* FollowBillButton: const topicName = `bill-${court}-${billId}`
BillTopicName(item) == "bill-" \o ToString(item.court) \o "-" \o item.billId

\* FollowUserButton: const topicName = `testimony-${profileId}`
UserTopicName(item) == "testimony-" \o item.profileId

Subjects == [kind : {"bill"}, item : BillItems] \cup [kind : {"testimony"}, item : UserItems]

TopicNameOf(s) == IF s.kind = "bill" THEN BillTopicName(s.item) ELSE UserTopicName(s.item)

TopicNames == {TopicNameOf(s) : s \in Subjects}

----------------------------------------------------------------------------
(* The store interface: FollowingQueries.tsx *)

\* setSubscriptionRef: collection(firestore, `/users/${uid}/activeTopicSubscriptions/`)
setSubscriptionRef(u) == Template(u)

\* the document followTopic writes: { ...props, ...data }
FollowDoc(u, s) ==
  IF s.kind = "bill"
  THEN [uid |-> u, topicName |-> TopicNameOf(s), type |-> "bill",
        billLookup |-> [billId |-> s.item.billId, court |-> s.item.court]]
  ELSE [uid |-> u, topicName |-> TopicNameOf(s), type |-> "testimony",
        userLookup |-> [profileId |-> s.item.profileId]]

\* followTopic: setDoc(doc(subscriptionRef, props.topicName), { ...props, ...data })
followTopic(u, s) ==
  [op |-> "set", path |-> setSubscriptionRef(u), id |-> TopicNameOf(s),
   data |-> FollowDoc(u, s)]

\* unfollowTopic: deleteDoc(doc(subscriptionRef, topicName))
unfollowTopic(u, topicName) ==
  [op |-> "delete", path |-> setSubscriptionRef(u), id |-> topicName, data |-> NoData]

\* setDoc / deleteDoc taking effect on the collection at w.path
ApplyToStore(st, w) ==
  LET others == {d \in st[w.path] : d.id # w.id}
  IN [st EXCEPT ![w.path] =
        IF w.op = "set" THEN others \cup {[id |-> w.id, data |-> w.data]} ELSE others]

\* faulty variant of TopicQuery: no where("topicName", "==", topicName) filter
TopicQueryUnfiltered(st, u, topicName) ==
  LET matches == {d \in st[setSubscriptionRef(u)] : "topicName" \in DOMAIN d.data}
  IN IF matches = {} THEN "" ELSE (CHOOSE d \in matches : TRUE).data.topicName

\* TopicQuery: where("topicName", "==", topicName); result = doc.data().topicName, else ""
TopicQuery(st, u, topicName) ==
  LET matches == {d \in st[setSubscriptionRef(u)] :
                    "topicName" \in DOMAIN d.data /\ d.data.topicName = topicName}
  IN IF matches = {} THEN "" ELSE (CHOOSE d \in matches : TRUE).data.topicName

\* faulty variant of Boolean: result !== undefined, which the empty string satisfies
BooleanOfDefined(result) == TRUE

\* Boolean(result) of a string
Boolean(result) == result # ""

----------------------------------------------------------------------------
(* FollowContext and BaseFollowButton *)

\* faulty variant of setFollowStatus: a full replace, setFollowStatus({ [topicName]: value })
setFollowStatusReplace(prev, topicName, value) == [k \in {topicName} |-> value]

\* setFollowStatus(prev => ({ ...prev, [topicName]: value }))
setFollowStatus(prev, topicName, value) ==
  [k \in DOMAIN prev \cup {topicName} |-> IF k = topicName THEN value ELSE prev[k]]

\* const isFollowing = followStatus[topicName], read for its truthiness
isFollowing(fs, topicName) == topicName \in DOMAIN fs /\ fs[topicName]

\* faulty variant of wantsConfirm: the two confirmation flags exchanged
wantsConfirmSwapped(fs, btn) ==
  IF isFollowing(fs, btn.topicName) THEN btn.confirmFollow ELSE btn.confirmUnfollow

\* const wantsConfirm = isFollowing ? confirmUnfollow : confirmFollow
wantsConfirm(fs, btn) ==
  IF isFollowing(fs, btn.topicName) THEN btn.confirmUnfollow ELSE btn.confirmFollow

\* the button label: t(`button.follow.${isFollowing ? "following" : "follow"}`)
Label(fs, btn) == IF isFollowing(fs, btn.topicName) THEN "following" ELSE "follow"

\* the modal's action prop: isFollowing ? "unfollow" : "follow"; also toggleFollow's branch
Direction(fs, topicName) == IF isFollowing(fs, topicName) THEN "unfollow" ELSE "follow"

Mounted == {b \in 1..MaxButtons : buttons[b].mounted}

----------------------------------------------------------------------------
(* Initial state *)

\* documents an earlier session of user u may have left under its own path
EarlierDocs(u) == {[id |-> TopicNameOf(s), data |-> FollowDoc(u, s)] : s \in Subjects}

NoQuery == [st |-> "none", result |-> "", pre |-> FALSE]

\* useState<number | null>(null) of the page that renders FollowersTab: null, which is
\* no count, is written -1
Null == -1

\* FollowersTab.tsx not rendered: useState<string[]>([]), no RPC, nothing logged
FollowersIdle ==
  [phase |-> "none", followerIds |-> <<>>, followerCount |-> Null, rpc |-> "none",
   logged |-> 0, escaped |-> FALSE]

\* FollowingTab.tsx not rendered: useState([]) twice, no listing query in flight, no row.
\* listQ: the listing queries in flight; issued: how many were issued so far; rowQ: the
\* status queries of the rows' buttons in flight; modal: the topic of the row whose
\* confirmation dialog is open; clearedAt: per list, the value of issued when the list
\* was last cleared by an unfollow
FollowingIdle ==
  [phase |-> "none", billsFollowing |-> <<>>, usersFollowing |-> <<>>, listQ |-> {},
   issued |-> 0, rowQ |-> {}, modal |-> "none",
   clearedAt |-> [bill |-> 0, testimony |-> 0]]

\* the peer-follow FollowersTab not rendered: useState(new Set()), useState([])
PeerIdle ==
  [phase |-> "none", followers |-> <<>>, iFollowSet |-> {},
   followersQ |-> [st |-> "none", result |-> <<>>],
   myFollowsQ |-> [st |-> "none", result |-> {}],
   pending |-> <<>>, added |-> 0]

TabsIdle ==
  /\ followersTab = FollowersIdle
  /\ followingTab = FollowingIdle
  /\ peerTab = PeerIdle

Init ==
  /\ uid \in UserIds \cup {Absent}
  /\ store \in {[p \in Paths |-> IF p \in UserIds THEN ds ELSE {}] :
                  ds \in SUBSET EarlierDocs("u1")}
  /\ writeQ = <<>>
  /\ followStatus = <<>>
  /\ buttons = [b \in 1..MaxButtons |-> NotMounted]
  /\ toggles = <<>>
  /\ awaiting = {}
  /\ queries = [b \in 1..MaxButtons |-> NoQuery]
  /\ TabsIdle

----------------------------------------------------------------------------
(* BaseFollowButton: mount, and the status query effect (lines 93-101) *)

\* The props a button instance is rendered with. Instance 1 is a bill button with any
\* confirmation flags; the later instances are rows of a list card, which passes
\* confirmUnfollow={true} (BillsCard, UsersCard), on either kind of subject.
ButtonProps(b) ==
  IF b = 1
  THEN [subject : [kind : {"bill"}, item : BillItems],
        confirmFollow : BOOLEAN, confirmUnfollow : BOOLEAN]
  ELSE [subject : Subjects, confirmFollow : {FALSE}, confirmUnfollow : {TRUE}]

\* dialog: "closed", the direction an open dialog was opened for, or "denied"
NewButton(p) ==
  [mounted |-> TRUE, subject |-> p.subject, topicName |-> TopicNameOf(p.subject),
   confirmFollow |-> p.confirmFollow, confirmUnfollow |-> p.confirmUnfollow,
   showModal |-> FALSE, dialog |-> "closed"]

\* useEffect: uid ? TopicQuery(uid, topicName).then(...) : null
StatusQueryEffect(u) ==
  IF u # Absent THEN [st |-> "sent", result |-> "", pre |-> FALSE] ELSE NoQuery

\* buttons mount in the order of their instance numbers
Mount(b) ==
  /\ ~buttons[b].mounted
  /\ \A c \in 1..(b - 1) : buttons[c].mounted
  /\ \E p \in ButtonProps(b) : buttons' = [buttons EXCEPT ![b] = NewButton(p)]
  /\ queries' = [queries EXCEPT ![b] = StatusQueryEffect(uid)]
  /\ UNCHANGED <<uid, store, writeQ, followStatus, toggles, awaiting, tabVars>>

----------------------------------------------------------------------------
(* The store evaluating a TopicQuery, and the response reaching .then *)

InFlight(b) == queries[b].st \in {"sent", "answered"}

QueryEval(b) ==
  /\ queries[b].st = "sent"
  /\ queries' = [queries EXCEPT ![b].st = "answered",
                                ![b].result = TopicQuery(store, uid, buttons[b].topicName)]
  /\ UNCHANGED <<uid, store, writeQ, followStatus, buttons, toggles, awaiting, tabVars>>

\* getDocs rejects: the .then callback never runs
QueryFail(b) ==
  /\ queries[b].st = "sent"
  /\ queries' = [queries EXCEPT ![b].st = "failed"]
  /\ UNCHANGED <<uid, store, writeQ, followStatus, buttons, toggles, awaiting, tabVars>>

\* .then(result => setFollowStatus(prev => ({ ...prev, [topicName]: Boolean(result) })))
QueryDeliver(b) ==
  /\ queries[b].st = "answered"
  /\ followStatus' = setFollowStatus(followStatus, buttons[b].topicName, Boolean(queries[b].result))
  /\ queries' = [queries EXCEPT ![b] = [st |-> "delivered", result |-> "", pre |-> FALSE]]
  /\ UNCHANGED <<uid, store, writeQ, buttons, toggles, awaiting, tabVars>>

----------------------------------------------------------------------------
(* toggleFollow (lines 107-115) through FollowBillButton / FollowUserButton *)

\* the value toggleFollow stores: false after onUnfollow, true after onFollow
ToggledValue(dir) == dir = "follow"

\* the wrapper's un-awaited store call: followTopic on follow, unfollowTopic on unfollow
StoreCall(u, btn, dir) ==
  IF dir = "follow" THEN followTopic(u, btn.subject) ELSE unfollowTopic(u, btn.topicName)

\* the store call is made, so the write is issued, before the caller's hook is called;
\* tid and b record the toggleFollow call and the button the write comes from
IssueWrite(q, w, tid, b) ==
  Append(q, [op |-> w.op, path |-> w.path, id |-> w.id, data |-> w.data,
             tid |-> tid, b |-> b])

\* faulty variant of AfterCall: the caller's hook called without await
AfterCallNoAwait(hookPending) == "done"

\* what toggleFollow has done when the click's task ends: with a caller hook that
\* is still pending it waits at its await, otherwise it has run to its end
AfterCall(hookPending) == IF hookPending THEN "awaiting" ELSE "done"

\* status queries of the topic issued before the toggle and still in flight
MarkPre(qs, seen) ==
  [b \in DOMAIN qs |->
     IF b \in seen /\ qs[b].st \in {"sent", "answered"}
     THEN [qs[b] EXCEPT !.pre = TRUE] ELSE qs[b]]

\* variant of Finish with a pessimistic update: the status is set only when the
\* toggle's write is known to have succeeded
FinishIfWritten(a, dir) ==
  /\ followStatus' = IF a.tid <= Len(toggles) /\ toggles[a.tid].wr = "ok"
                     THEN setFollowStatus(followStatus, buttons[a.b].topicName, dir = "follow")
                     ELSE followStatus
  /\ buttons' = IF a.modal
                THEN [buttons EXCEPT ![a.b].showModal = FALSE, ![a.b].dialog = "closed"]
                ELSE buttons
  /\ queries' = queries

\* the part of toggleFollow after its await: setFollowStatus, and, from the modal's
\* onConfirm, setShowModal(false)
Finish(a, dir) ==
  /\ followStatus' = setFollowStatus(followStatus, buttons[a.b].topicName, ToggledValue(dir))
  /\ buttons' = IF a.modal
                THEN [buttons EXCEPT ![a.b].showModal = FALSE, ![a.b].dialog = "closed"]
                ELSE buttons
  /\ queries' = MarkPre(queries, a.seen)

\* toggleFollow called on button b (fromModal: by the modal's onConfirm); hookPending:
\* the render's onFollow / onUnfollow prop is a hook that does not settle in this task
StartToggle(b, fromModal, hookPending) ==
  LET btn == buttons[b]
      dir == Direction(followStatus, btn.topicName)
      tid == Len(toggles) + 1
      st  == AfterCall(hookPending)
      a   == [tid |-> tid, b |-> b, modal |-> fromModal,
              seen |-> {c \in Mounted : InFlight(c) /\ buttons[c].topicName = btn.topicName}]
  IN /\ Len(toggles) < MaxToggles
     /\ writeQ' = IssueWrite(writeQ, StoreCall(uid, btn, dir), tid, b)
     /\ toggles' = Append(toggles, [topicName |-> btn.topicName, dir |-> dir, st |-> st,
                                    wr |-> "pending"])
     /\ awaiting' = IF hookPending THEN awaiting \cup {a} ELSE awaiting
     /\ IF st = "done" THEN Finish(a, dir) ELSE UNCHANGED <<followStatus, buttons, queries>>

\* onClick: wantsConfirm ? setShowModal(true) : await toggleFollow()
\* An open confirmation dialog is modal: no button behind it can be clicked.
Click(b) ==
  /\ buttons[b].mounted
  /\ \A c \in Mounted : ~buttons[c].showModal
  /\ IF wantsConfirm(followStatus, buttons[b])
     THEN /\ buttons' = [buttons EXCEPT ![b].showModal = TRUE,
                                        ![b].dialog = Direction(followStatus, buttons[b].topicName)]
          /\ UNCHANGED <<writeQ, followStatus, toggles, awaiting, queries>>
     ELSE \E hookPending \in BOOLEAN : StartToggle(b, FALSE, hookPending)
  /\ UNCHANGED <<uid, store, tabVars>>

\* onConfirm: await toggleFollow(); setShowModal(false)
Confirm(b) ==
  /\ buttons[b].mounted
  /\ buttons[b].showModal
  /\ \E hookPending \in BOOLEAN : StartToggle(b, TRUE, hookPending)
  /\ UNCHANGED <<uid, store, tabVars>>

\* onDeny (and the modal's onHide): setShowModal(false)
Deny(b) ==
  /\ buttons[b].mounted
  /\ buttons[b].showModal
  /\ buttons' = [buttons EXCEPT ![b].showModal = FALSE, ![b].dialog = "denied"]
  /\ UNCHANGED <<uid, store, writeQ, followStatus, toggles, awaiting, queries, tabVars>>

\* the caller's hook resolves: a toggleFollow waiting for it resumes after its await
HookResolve(a) ==
  /\ a \in awaiting
  /\ awaiting' = awaiting \ {a}
  /\ IF toggles[a.tid].st = "awaiting"
     THEN /\ toggles' = [toggles EXCEPT ![a.tid].st = "done"]
          /\ Finish(a, toggles[a.tid].dir)
     ELSE UNCHANGED <<toggles, followStatus, buttons, queries>>
  /\ UNCHANGED <<uid, store, writeQ, tabVars>>

\* the caller's hook rejects: a toggleFollow waiting for it throws at its await and
\* nothing after the await runs
HookReject(a) ==
  /\ a \in awaiting
  /\ awaiting' = awaiting \ {a}
  /\ toggles' = [toggles EXCEPT ![a.tid].st = IF @ = "awaiting" THEN "aborted" ELSE @]
  /\ UNCHANGED <<uid, store, writeQ, followStatus, buttons, queries, tabVars>>

----------------------------------------------------------------------------
(* The store settling the oldest outstanding write *)

WriteOk ==
  /\ writeQ # <<>>
  /\ store' = ApplyToStore(store, Head(writeQ))
  /\ writeQ' = Tail(writeQ)
  /\ toggles' = [toggles EXCEPT ![Head(writeQ).tid].wr = "ok"]
  /\ UNCHANGED <<uid, followStatus, buttons, awaiting, queries, tabVars>>

\* TransportFailure: the write's promise rejects, unhandled; the store is unchanged
WriteFail ==
  /\ writeQ # <<>>
  /\ writeQ' = Tail(writeQ)
  /\ toggles' = [toggles EXCEPT ![Head(writeQ).tid].wr = "failed"]
  /\ UNCHANGED <<uid, store, followStatus, buttons, awaiting, queries, tabVars>>

----------------------------------------------------------------------------

Next ==
  \/ \E b \in 1..MaxButtons : Mount(b)
  \/ \E b \in 1..MaxButtons : Click(b)
  \/ \E b \in 1..MaxButtons : Confirm(b)
  \/ \E b \in 1..MaxButtons : Deny(b)
  \/ \E a \in awaiting : HookResolve(a)
  \/ \E a \in awaiting : HookReject(a)
  \/ \E b \in 1..MaxButtons : QueryEval(b)
  \/ \E b \in 1..MaxButtons : QueryFail(b)
  \/ \E b \in 1..MaxButtons : QueryDeliver(b)
  \/ WriteOk
  \/ WriteFail

Spec == Init /\ [][Next]_vars

----------------------------------------------------------------------------
(* EditProfilePage/FollowersTab.tsx: the followers of the current user, from   *)
(* the getFollowers RPC, shown as a UsersCard whose rows hold FollowUserButtons *)

\* profile ids the getFollowers RPC may return
FollowerIds == {"u2", "u3"}

\* response.data: the followers of the user, each once, in any order
RpcResponses ==
  {<<>>} \cup {<<f>> : f \in FollowerIds}
         \cup UNION {{<<f, g>> : g \in FollowerIds \ {f}} : f \in FollowerIds}

\* items={followerIds.map(profileId => ({ profileId }))}
FollowerSubject(f) == [kind |-> "testimony", item |-> [profileId |-> f]]

\* UsersCard's ItemCard: <FollowUserButton confirmUnfollow={true} {...props} />
FollowerRow(f) ==
  NewButton([subject |-> FollowerSubject(f), confirmFollow |-> FALSE, confirmUnfollow |-> TRUE])

\* the current user's own follow set S, as the records followTopic leaves
OwnFollows(u) ==
  {[id |-> TopicNameOf(FollowerSubject(f)), data |-> FollowDoc(u, FollowerSubject(f))] :
     f \in FollowerIds}

FollowersInit ==
  /\ uid \in UserIds \cup {Absent}
  /\ store \in {[p \in Paths |-> IF p \in UserIds THEN ds ELSE {}] :
                  ds \in SUBSET OwnFollows("u1")}
  /\ writeQ = <<>>
  /\ followStatus = <<>>
  /\ buttons = [b \in 1..MaxButtons |-> NotMounted]
  /\ toggles = <<>>
  /\ awaiting = {}
  /\ queries = [b \in 1..MaxButtons |-> NoQuery]
  /\ TabsIdle

\* useEffect(() => { ...; if (uid) fetchFollowers(uid) }, [uid]): getFollowers({ uid }) is called
FollowersMount ==
  /\ followersTab.phase = "none"
  /\ followersTab' = [followersTab EXCEPT !.phase = "mounted",
                                         !.rpc = IF uid # Absent THEN "sent" ELSE "none"]
  /\ UNCHANGED <<uid, store, writeQ, followStatus, buttons, toggles, awaiting, queries,
                 followingTab, peerTab>>

\* the rows of the card after setFollowerIds(data): one FollowUserButton per follower,
\* whose mount effect issues its status query
RowsOf(data) == [b \in 1..MaxButtons |-> IF b <= Len(data) THEN FollowerRow(data[b]) ELSE NotMounted]

RowQueriesOf(data, u) ==
  [b \in 1..MaxButtons |-> IF b <= Len(data) THEN StatusQueryEffect(u) ELSE NoQuery]

\* the await of getFollowers resumes with a response: setFollowerIds(response.data);
\* setFollowerCount(response.data.length). No line asks whether the tab is still there.
\* setFollowerIds of a tab that has been unmounted reaches no state (it is disposed with
\* the tab); setFollowerCount is the state of the page and is set all the same.
RpcResolve(data) ==
  /\ followersTab.rpc = "sent"
  /\ Len(data) <= MaxButtons
  /\ IF followersTab.phase = "mounted"
     THEN /\ followersTab' = [followersTab EXCEPT !.rpc = "resolved", !.followerIds = data,
                                                    !.followerCount = Len(data)]
          /\ buttons' = RowsOf(data)
          /\ queries' = RowQueriesOf(data, uid)
     ELSE /\ followersTab' = [followersTab EXCEPT !.rpc = "resolved",
                                                    !.followerCount = Len(data)]
          /\ UNCHANGED <<buttons, queries>>
  /\ UNCHANGED <<uid, store, writeQ, followStatus, toggles, awaiting, followingTab, peerTab>>

\* faulty variant of OnReject: no try / catch around the await
OnRejectUncaught(t) == [t EXCEPT !.rpc = "rejected", !.escaped = TRUE]

\* catch (err) { console.error("Error fetching followerIds", err); return }
OnReject(t) == [t EXCEPT !.rpc = "rejected", !.logged = @ + 1]

\* getFollowers rejects (TransportFailure): the await throws inside the try block
RpcReject ==
  /\ followersTab.rpc = "sent"
  /\ followersTab' = OnReject(followersTab)
  /\ UNCHANGED <<uid, store, writeQ, followStatus, buttons, toggles, awaiting, queries,
                 followingTab, peerTab>>

\* the tab leaves the page: its rows go with it; the effect returns no cleanup, so the
\* RPC and the rows' status queries stay in flight
FollowersUnmount ==
  /\ followersTab.phase = "mounted"
  /\ followersTab' = [followersTab EXCEPT !.phase = "unmounted"]
  /\ buttons' = [b \in 1..MaxButtons |->
                   IF buttons[b].mounted THEN [buttons[b] EXCEPT !.mounted = FALSE]
                   ELSE buttons[b]]
  /\ UNCHANGED <<uid, store, writeQ, followStatus, toggles, awaiting, queries,
                 followingTab, peerTab>>

FollowersNext ==
  \/ FollowersMount
  \/ \E data \in RpcResponses : RpcResolve(data)
  \/ RpcReject
  \/ FollowersUnmount
  \/ \E b \in 1..MaxButtons : QueryEval(b)
  \/ \E b \in 1..MaxButtons : QueryFail(b)
  \/ \E b \in 1..MaxButtons : QueryDeliver(b)

FollowersSpec == FollowersInit /\ [][FollowersNext]_vars

----------------------------------------------------------------------------
(* The peer-follow FollowersTab (src/unnamed/part_002): two store queries, the *)
(* rows' alreadyFollowing, and setFollow, which writes with addDoc              *)

\* Bound: the addDoc calls of one run
MaxAdds == 2

PeerPaths == Paths \cup FollowerIds

\* the record user f's follow button leaves when f follows user u
TheyFollow(f, u) ==
  [id |-> TopicNameOf(FollowerSubject(u)), data |-> FollowDoc(f, FollowerSubject(u))]

PeerInit ==
  /\ uid \in UserIds \cup {Absent}
  /\ store \in {[p \in PeerPaths |->
                   IF p \in UserIds THEN ds
                   ELSE IF p \in fs THEN {TheyFollow(p, "u1")} ELSE {}] :
                  ds \in SUBSET OwnFollows("u1"), fs \in SUBSET FollowerIds}
  /\ writeQ = <<>>
  /\ followStatus = <<>>
  /\ buttons = [b \in 1..MaxButtons |-> NotMounted]
  /\ toggles = <<>>
  /\ awaiting = {}
  /\ queries = [b \in 1..MaxButtons |-> NoQuery]
  /\ TabsIdle

\* a field of a document that may lack it: reading a missing field gives undefined
Field(r, f) == IF f \in DOMAIN r THEN r[f] ELSE Absent

\* the documents of a query snapshot in the store's document order (some fixed order)
RECURSIVE SeqOf(_)
SeqOf(S) ==
  IF S = {} THEN <<>>
  ELSE LET x == CHOOSE y \in S : TRUE IN <<x>> \o SeqOf(S \ {x})

\* where("uid", "==", uid), where("type", "==", "testimony")
IsTestimonyOf(d, u) ==
  /\ "uid" \in DOMAIN d.data /\ d.data.uid = u
  /\ "type" \in DOMAIN d.data /\ d.data.type = "testimony"

\* followersQuery over collectionGroup(firestore, "activeTopicSubscriptions"), and
\* qs.forEach(doc => list.push(doc.data().userLookup))
FollowersQuery(st, u) ==
  LET docs == SeqOf({d \in UNION {st[p] : p \in DOMAIN st} : IsTestimonyOf(d, u)})
  IN [i \in 1..Len(docs) |-> docs[i].data.userLookup]

\* myFollowsQuery over /users/${uid}/activeTopicSubscriptions/, and
\* qs.forEach(doc => ids.add(doc.data().userLookup.uid))
MyFollowsQuery(st, u) ==
  {Field(d.data.userLookup, "uid") : d \in {e \in st[Template(u)] : IsTestimonyOf(e, u)}}

\* alreadyFollowing={iFollowSet.has(element.profileId)}
alreadyFollowing(set, element) == Field(element, "profileId") \in set

\* both effects run on mount: if (!followersQuery) return, if (!myFollowsQuery) return
PeerMount ==
  /\ peerTab.phase = "none"
  /\ peerTab' = [peerTab EXCEPT !.phase = "mounted",
                                !.followersQ.st = IF uid # Absent THEN "sent" ELSE "none",
                                !.myFollowsQ.st = IF uid # Absent THEN "sent" ELSE "none"]
  /\ UNCHANGED <<uid, store, writeQ, followStatus, buttons, toggles, awaiting, queries,
                 followersTab, followingTab>>

\* the store evaluates getDocs(followersQuery)
FollowersQueryEval ==
  /\ peerTab.followersQ.st = "sent"
  /\ peerTab' = [peerTab EXCEPT !.followersQ = [st |-> "answered",
                                                 result |-> FollowersQuery(store, uid)]]
  /\ UNCHANGED <<uid, store, writeQ, followStatus, buttons, toggles, awaiting, queries,
                 followersTab, followingTab>>

\* setFollowers(list)
FollowersQueryDeliver ==
  /\ peerTab.followersQ.st = "answered"
  /\ peerTab' = [peerTab EXCEPT !.followers = peerTab.followersQ.result,
                                !.followersQ = [st |-> "delivered", result |-> <<>>]]
  /\ UNCHANGED <<uid, store, writeQ, followStatus, buttons, toggles, awaiting, queries,
                 followersTab, followingTab>>

\* the store evaluates getDocs(myFollowsQuery)
MyFollowsQueryEval ==
  /\ peerTab.myFollowsQ.st = "sent"
  /\ peerTab' = [peerTab EXCEPT !.myFollowsQ = [st |-> "answered",
                                                 result |-> MyFollowsQuery(store, uid)]]
  /\ UNCHANGED <<uid, store, writeQ, followStatus, buttons, toggles, awaiting, queries,
                 followersTab, followingTab>>

\* setIFollowSet(ids)
MyFollowsQueryDeliver ==
  /\ peerTab.myFollowsQ.st = "answered"
  /\ peerTab' = [peerTab EXCEPT !.iFollowSet = peerTab.myFollowsQ.result,
                                !.myFollowsQ = [st |-> "delivered", result |-> {}]]
  /\ UNCHANGED <<uid, store, writeQ, followStatus, buttons, toggles, awaiting, queries,
                 followersTab, followingTab>>

\* the user a row stands for: the id its element carries
RowUser(element) ==
  IF "profileId" \in DOMAIN element THEN element.profileId ELSE Field(element, "uid")

\* the document setFollow adds: { uid, type: "testimony", userLookup: { uid: targetUid } }
PeerDoc(u, targetUid) == [uid |-> u, type |-> "testimony", userLookup |-> [uid |-> targetUid]]

\* addDoc gives the document a fresh id
AutoId(n) == "auto" \o ToString(n)

\* setFollow(targetUid) from the row of a follower: if (!uid || iFollowSet.has(targetUid))
\* return; otherwise addDoc is called and the handler waits for it, holding the
\* iFollowSet of the render it was created in
SetFollow(i) ==
  LET targetUid == RowUser(peerTab.followers[i])
  IN /\ peerTab.phase = "mounted"
     /\ peerTab.added < MaxAdds
     /\ uid # Absent
     /\ targetUid \notin peerTab.iFollowSet
     /\ peerTab' = [peerTab EXCEPT
                      !.pending = Append(@, [targetUid |-> targetUid,
                                             iFollowSet |-> peerTab.iFollowSet]),
                      !.added = @ + 1]
     /\ UNCHANGED <<uid, store, writeQ, followStatus, buttons, toggles, awaiting, queries,
                    followersTab, followingTab>>

\* the oldest addDoc is applied and its await resumes:
\* setIFollowSet(new Set([...iFollowSet, targetUid])) with the iFollowSet of the call
AddDocOk ==
  /\ peerTab.pending # <<>>
  /\ LET w == Head(peerTab.pending)
         n == peerTab.added - Len(peerTab.pending) + 1
     IN /\ store' = [store EXCEPT ![Template(uid)] =
                       @ \cup {[id |-> AutoId(n), data |-> PeerDoc(uid, w.targetUid)]}]
        /\ peerTab' = [peerTab EXCEPT !.pending = Tail(@),
                                      !.iFollowSet = w.iFollowSet \cup {w.targetUid}]
  /\ UNCHANGED <<uid, writeQ, followStatus, buttons, toggles, awaiting, queries,
                 followersTab, followingTab>>

\* the oldest addDoc rejects: the await throws and setIFollowSet is not reached
AddDocFail ==
  /\ peerTab.pending # <<>>
  /\ peerTab' = [peerTab EXCEPT !.pending = Tail(@)]
  /\ UNCHANGED <<uid, store, writeQ, followStatus, buttons, toggles, awaiting, queries,
                 followersTab, followingTab>>

PeerNext ==
  \/ PeerMount
  \/ FollowersQueryEval
  \/ FollowersQueryDeliver
  \/ MyFollowsQueryEval
  \/ MyFollowsQueryDeliver
  \/ \E i \in 1..Len(peerTab.followers) : SetFollow(i)
  \/ AddDocOk
  \/ AddDocFail

PeerSpec == PeerInit /\ [][PeerNext]_vars

----------------------------------------------------------------------------
(* EditProfilePage/FollowingTab.tsx: the followed bills and users of the       *)
(* current user, each list a card whose rows hold follow buttons               *)

\* Bounds: the listing queries of one run whose response can set a list, and the
\* toggles made from the rows of the tab
MaxListQueries == 6
MaxRowToggles == 1

\* what the user may follow in this part: two bills and one user
TabSubjects ==
  [kind : {"bill"}, item : [court : {193}, billId : {"H100", "H200"}]]
    \cup [kind : {"testimony"}, item : UserItems]

TabDocs(u) == {[id |-> TopicNameOf(sb), data |-> FollowDoc(u, sb)] : sb \in TabSubjects}

FollowingInit ==
  /\ uid \in UserIds \cup {Absent}
  /\ store \in {[p \in Paths |-> IF p \in UserIds THEN ds ELSE {}] :
                  ds \in SUBSET TabDocs("u1")}
  /\ writeQ = <<>>
  /\ followStatus = <<>>
  /\ buttons = [b \in 1..MaxButtons |-> NotMounted]
  /\ toggles = <<>>
  /\ awaiting = {}
  /\ queries = [b \in 1..MaxButtons |-> NoQuery]
  /\ TabsIdle

\* the payload field a listing query pushes: billLookup for bills, userLookup for users
LookupField(kind) == IF kind = "bill" THEN "billLookup" ELSE "userLookup"

\* billsFollowingQuery / orgsFollowingQuery up to the list they build:
\* where("uid", "==", `${uid}`), where("type", "==", kind); list.push(doc.data()[field])
Listing(st, u, kind) ==
  LET docs == SeqOf({d \in st[Template(u)] :
                       /\ "uid" \in DOMAIN d.data /\ d.data.uid = Template(u)
                       /\ "type" \in DOMAIN d.data /\ d.data.type = kind})
  IN [i \in 1..Len(docs) |-> Field(docs[i].data, LookupField(kind))]

\* FollowingQuery: q1 = where("uid", "==", `${uid}`), where("type", "==", `bill`), each
\* document's billLookup pushed to bills if it has one; q2 the same with type `org` and
\* userLookup pushed to orgs
FollowingQuery(st, u) ==
  LET snapshot(type, field) ==
        SeqOf({d \in st[setSubscriptionRef(u)] :
                 /\ "uid" \in DOMAIN d.data /\ d.data.uid = Template(u)
                 /\ "type" \in DOMAIN d.data /\ d.data.type = type
                 /\ field \in DOMAIN d.data})
      bills == snapshot("bill", "billLookup")
      orgs  == snapshot("org", "userLookup")
  IN [bills |-> [i \in 1..Len(bills) |-> bills[i].data.billLookup],
      orgs  |-> [i \in 1..Len(orgs) |-> orgs[i].data.userLookup]]

ListOf(t, kind) == IF kind = "bill" THEN t.billsFollowing ELSE t.usersFollowing

\* setBillsFollowing(list) / setUsersFollowing(list)
SetList(t, kind, list) ==
  IF kind = "bill" THEN [t EXCEPT !.billsFollowing = list]
  ELSE [t EXCEPT !.usersFollowing = list]

\* faulty variant of RenderQueries: the response of a listing query is set whatever the
\* list of its render held (no length === 0 test), so the queries of every render count
RenderQueriesUnguarded(u, bills, users) ==
  IF u = Absent THEN <<>> ELSE <<"bill", "bill", "testimony">>

\* The effects of a render with the lists bills and users. The effect without
\* dependencies (lines 73-75) calls billsFollowingQuery; the effect on the lists (lines
\* 103-105) calls fetchFollowedItems, that is billsFollowingQuery and orgsFollowingQuery;
\* all only with a uid. A query's response is applied only if the list of its render
\* was empty (lines 68 and 91), so only the queries of an empty list are kept.
RenderQueries(u, bills, users) ==
  IF u = Absent THEN <<>>
  ELSE (IF bills = <<>> THEN <<"bill", "bill">> ELSE <<>>)
         \o (IF users = <<>> THEN <<"testimony">> ELSE <<>>)

\* the queries of the render that follows a state change of the tab
Rerender(t, u) ==
  LET kinds == RenderQueries(u, t.billsFollowing, t.usersFollowing)
  IN [t EXCEPT !.listQ = @ \cup {[qid |-> t.issued + i, kind |-> kinds[i],
                                  st |-> "sent", result |-> <<>>] : i \in 1..Len(kinds)},
               !.issued = @ + Len(kinds)]

FollowingMount ==
  /\ followingTab.phase = "none"
  /\ followingTab' = Rerender([followingTab EXCEPT !.phase = "mounted"], uid)
  /\ UNCHANGED <<uid, store, writeQ, followStatus, buttons, toggles, awaiting, queries,
                 followersTab, peerTab>>

\* the store evaluates getDocs(q) of a listing query
ListQueryEval(q) ==
  /\ q \in followingTab.listQ
  /\ q.st = "sent"
  /\ followingTab' = [followingTab EXCEPT
                        !.listQ = (@ \ {q}) \cup {[q EXCEPT !.st = "answered",
                                                     !.result = Listing(store, uid, q.kind)]}]
  /\ UNCHANGED <<uid, store, writeQ, followStatus, buttons, toggles, awaiting, queries,
                 followersTab, peerTab>>

\* the row of an item: BillsCard gives <FollowBillButton confirmUnfollow={true} />,
\* UsersCard <FollowUserButton confirmUnfollow={true} />
RowButton(kind, item) ==
  NewButton([subject |-> [kind |-> kind, item |-> item],
             confirmFollow |-> FALSE, confirmUnfollow |-> TRUE])

RowTopics(kind, list) == {RowButton(kind, list[i]).topicName : i \in 1..Len(list)}

Displayed(t) == RowTopics("bill", t.billsFollowing) \cup RowTopics("testimony", t.usersFollowing)

\* rows are keyed by their index: the button at index i runs its status query effect
\* when it is new or its topicName has changed
NewRows(kind, old, new) ==
  {RowButton(kind, new[i]).topicName :
     i \in {j \in 1..Len(new) : j > Len(old) \/ old[j] # new[j]}}

\* the status queries in flight after the buttons of topics have run their effect
\* (one per topic is followed: a new query of a topic stands for an older one)
RowQueriesAfter(rowQ, topics, u) ==
  IF u = Absent THEN rowQ
  ELSE {r \in rowQ : r.topicName \notin topics}
         \cup {[topicName |-> tn, st |-> "sent", result |-> ""] : tn \in topics}

\* the second half of a listing query (lines 68-70, 91-93): the list of the query's
\* render was empty, so the response is set if it is not empty; the tab then renders
\* again, with new rows and new queries
ApplyListing(t, u, q) ==
  IF q.result = <<>> THEN [t EXCEPT !.listQ = @ \ {q}]
  ELSE LET set == SetList([t EXCEPT !.listQ = @ \ {q}], q.kind, q.result)
           rows == [set EXCEPT !.rowQ = RowQueriesAfter(@, NewRows(q.kind, ListOf(t, q.kind),
                                                                 q.result), u),
                               !.modal = IF @ \in Displayed(set) THEN @ ELSE "none"]
       IN Rerender(rows, u)

ListQueryDeliver(q) ==
  /\ q \in followingTab.listQ
  /\ q.st = "answered"
  /\ followingTab' = ApplyListing(followingTab, uid, q)
  /\ followingTab'.issued <= MaxListQueries
  /\ UNCHANGED <<uid, store, writeQ, followStatus, buttons, toggles, awaiting, queries,
                 followersTab, peerTab>>


\* the store evaluates the TopicQuery of a row's button
RowQueryEval(r) ==
  /\ r \in followingTab.rowQ
  /\ r.st = "sent"
  /\ followingTab' = [followingTab EXCEPT
                        !.rowQ = (@ \ {r}) \cup
                                 {[r EXCEPT !.st = "answered",
                                            !.result = TopicQuery(store, uid, r.topicName)]}]
  /\ UNCHANGED <<uid, store, writeQ, followStatus, buttons, toggles, awaiting, queries,
                 followersTab, peerTab>>

\* .then(result => setFollowStatus(prev => ({ ...prev, [topicName]: Boolean(result) })))
RowQueryDeliver(r) ==
  /\ r \in followingTab.rowQ
  /\ r.st = "answered"
  /\ followStatus' = setFollowStatus(followStatus, r.topicName, Boolean(r.result))
  /\ followingTab' = [followingTab EXCEPT !.rowQ = @ \ {r}]
  /\ UNCHANGED <<uid, store, writeQ, buttons, toggles, awaiting, queries,
                 followersTab, peerTab>>

\* onUnfollow of a row: async () => setBillsFollowing([]) (line 116) or
\* async () => setUsersFollowing([]) (line 124); the rows of the list unmount and the
\* tab renders again
OnUnfollow(t, u, kind) ==
  Rerender([SetList(t, kind, <<>>) EXCEPT !.modal = "none", !.clearedAt[kind] = t.issued], u)

\* toggleFollow of the button in row i of a list. The wrapper issues the store call and
\* awaits the row's hook, which the tab gives for unfollow only and which has no
\* await of its own; then setFollowStatus and, from the dialog, setShowModal(false).
RowToggle(kind, i, fromModal) ==
  LET btn == RowButton(kind, ListOf(followingTab, kind)[i])
      dir == Direction(followStatus, btn.topicName)
      tid == Len(toggles) + 1
  IN /\ Len(toggles) < MaxRowToggles
     /\ writeQ' = IssueWrite(writeQ, StoreCall(uid, btn, dir), tid, btn.topicName)
     /\ toggles' = Append(toggles, [topicName |-> btn.topicName, dir |-> dir,
                                    st |-> "done", wr |-> "pending"])
     /\ followStatus' = setFollowStatus(followStatus, btn.topicName, ToggledValue(dir))
     /\ followingTab' = IF dir = "unfollow" THEN OnUnfollow(followingTab, uid, kind)
                        ELSE [followingTab EXCEPT !.modal = IF fromModal THEN "none" ELSE @]
     /\ followingTab'.issued <= MaxListQueries

\* onClick of the button in row i: wantsConfirm ? setShowModal(true) : await toggleFollow()
RowClick(kind, i) ==
  LET btn == RowButton(kind, ListOf(followingTab, kind)[i])
  IN /\ followingTab.phase = "mounted"
     /\ followingTab.modal = "none"
     /\ IF wantsConfirm(followStatus, btn)
        THEN /\ followingTab' = [followingTab EXCEPT !.modal = btn.topicName]
             /\ UNCHANGED <<writeQ, toggles, followStatus>>
        ELSE RowToggle(kind, i, FALSE)
     /\ UNCHANGED <<uid, store, buttons, awaiting, queries, followersTab, peerTab>>

\* onConfirm of the row's dialog: await toggleFollow(); setShowModal(false)
RowConfirm(kind, i) ==
  /\ followingTab.modal = RowButton(kind, ListOf(followingTab, kind)[i]).topicName
  /\ RowToggle(kind, i, TRUE)
  /\ UNCHANGED <<uid, store, buttons, awaiting, queries, followersTab, peerTab>>

\* onDeny of the row's dialog: setShowModal(false)
RowDeny(kind, i) ==
  /\ followingTab.modal = RowButton(kind, ListOf(followingTab, kind)[i]).topicName
  /\ followingTab' = [followingTab EXCEPT !.modal = "none"]
  /\ UNCHANGED <<uid, store, writeQ, followStatus, buttons, toggles, awaiting, queries,
                 followersTab, peerTab>>

Kinds == {"bill", "testimony"}

FollowingNext ==
  \/ FollowingMount
  \/ \E q \in followingTab.listQ : ListQueryEval(q)
  \/ \E q \in followingTab.listQ : ListQueryDeliver(q)
  \/ \E r \in followingTab.rowQ : RowQueryEval(r)
  \/ \E r \in followingTab.rowQ : RowQueryDeliver(r)
  \/ \E kind \in Kinds : \E i \in 1..Len(ListOf(followingTab, kind)) : RowClick(kind, i)
  \/ \E kind \in Kinds : \E i \in 1..Len(ListOf(followingTab, kind)) : RowConfirm(kind, i)
  \/ \E kind \in Kinds : \E i \in 1..Len(ListOf(followingTab, kind)) : RowDeny(kind, i)
  \/ WriteOk
  \/ WriteFail

FollowingSpec == FollowingInit /\ [][FollowingNext]_vars

\* The tab left alone: a fixed session, no user action and hence no write. The store
\* answers every query it was sent and the event loop runs every response that arrived,
\* so each step that stays possible is eventually taken.
QuietNext ==
  \/ FollowingMount
  \/ \E q \in followingTab.listQ : ListQueryEval(q)
  \/ \E q \in followingTab.listQ : ListQueryDeliver(q)
  \/ \E r \in followingTab.rowQ : RowQueryEval(r)
  \/ \E r \in followingTab.rowQ : RowQueryDeliver(r)

QuietSpec ==
  /\ FollowingInit
  /\ [][QuietNext]_vars
  /\ WF_vars(FollowingMount)
  /\ WF_vars(\E q \in followingTab.listQ : ListQueryEval(q))
  /\ WF_vars(\E q \in followingTab.listQ : ListQueryDeliver(q))
  /\ WF_vars(\E r \in followingTab.rowQ : RowQueryEval(r))
  /\ WF_vars(\E r \in followingTab.rowQ : RowQueryDeliver(r))

----------------------------------------------------------------------------
(* Properties *)

Buttons == 1..MaxButtons

HasDoc(path, topicName) == \E d \in store[path] : d.id = topicName

\* a write was issued in this step, by button b
Issues(b) == Len(writeQ') > Len(writeQ) /\ writeQ'[Len(writeQ')].b = b

\* C1: once a toggle of T has set followStatus[T], the response of a status query
\* issued before that toggle does not change followStatus[T] when it is delivered.
C1_ToggleWins ==
  [][\A b \in Buttons :
       (queries[b].st = "answered" /\ queries[b].pre /\ queries'[b].st = "delivered")
         => followStatus'[buttons[b].topicName] = followStatus[buttons[b].topicName]]_vars

\* C2: with the confirmation flag of the current direction set, an activation only
\* opens the dialog: the opening step and a deny leave the store, the issued writes,
\* the hooks and followStatus as they are, and a button issues a write or calls a
\* hook only if its flag is unset or its dialog is open (a confirm).
C2_ConfirmGate ==
  [][\A b \in Buttons : buttons[b].mounted =>
       LET T == buttons[b].topicName
           following == T \in DOMAIN followStatus /\ followStatus[T]
           flag == IF following THEN buttons[b].confirmUnfollow ELSE buttons[b].confirmFollow
           opened == ~buttons[b].showModal /\ buttons'[b].showModal
           denied == buttons[b].showModal /\ ~buttons'[b].showModal /\ toggles' = toggles
       IN /\ (opened \/ denied) =>
               UNCHANGED <<store, writeQ, followStatus, toggles, awaiting>>
          /\ (Issues(b) \/ \E a \in awaiting' \ awaiting : a.b = b) =>
               (buttons[b].showModal \/ ~flag)]_vars

\* C2 witness: a dialog was opened and denied, and nothing has been toggled or written
C2_Witness ==
  \E b \in Buttons :
    /\ buttons[b].mounted /\ buttons[b].dialog = "denied" /\ ~buttons[b].showModal
    /\ toggles = <<>> /\ writeQ = <<>>

\* C3: after a successful follow of T followed by an unfollow of T, once the issued
\* writes have completed the store holds no record for (uid, T) and followStatus[T] is
\* false.
C3_FollowThenUnfollow ==
  \A T \in TopicNames :
    LET on == SelectSeq(toggles, LAMBDA t : t.topicName = T)
        n  == Len(on)
    IN (/\ uid # Absent
        /\ n >= 2
        /\ on[n - 1] = [topicName |-> T, dir |-> "follow", st |-> "done", wr |-> "ok"]
        /\ on[n] = [topicName |-> T, dir |-> "unfollow", st |-> "done", wr |-> "ok"]
        /\ writeQ = <<>>)
       => (~HasDoc(uid, T) /\ T \in DOMAIN followStatus /\ ~followStatus[T])

\* C4: while followStatus has no entry for a button's topic, the button shows neither
\* the 'follow' nor the 'following' label, and an activation is not treated as a follow.
C4_UnknownNeutral ==
  /\ [](\A b \in Buttons :
          (buttons[b].mounted /\ buttons[b].topicName \notin DOMAIN followStatus)
            => Label(followStatus, buttons[b]) \notin {"follow", "following"})
  /\ [][\A b \in Buttons :
          (buttons[b].mounted /\ buttons[b].topicName \notin DOMAIN followStatus)
            => ~(Issues(b) /\ writeQ'[Len(writeQ')].op = "set")]_vars

\* C5: with no session, a toggle is suppressed: no write is issued, nothing is written
\* under the path of user 'undefined', and followStatus does not change.
C5_NoSessionNoToggle ==
  uid = Absent =>
    /\ writeQ = <<>>
    /\ store[Template(Absent)] = {}
    /\ followStatus = <<>>

\* C6: two buttons mounted for the same topic T, with no toggle of T, show the same
\* boolean status once both status queries have resolved, in either arrival order:
\* the status the unchanged store holds for T.
C6_SameTopicConverges ==
  \A b1 \in Buttons : \A b2 \in Buttons \ {b1} :
    (/\ buttons[b1].mounted /\ buttons[b2].mounted
     /\ buttons[b1].topicName = buttons[b2].topicName
     /\ queries[b1].st = "delivered" /\ queries[b2].st = "delivered"
     /\ \A t \in 1..Len(toggles) : toggles[t].topicName # buttons[b1].topicName)
    => LET T == buttons[b1].topicName
       IN /\ T \in DOMAIN followStatus
          /\ followStatus[T] \in BOOLEAN
          /\ Label(followStatus, buttons[b1]) = Label(followStatus, buttons[b2])
          /\ followStatus[T] = HasDoc(uid, T)

\* C6 witness: both queries of a shared topic have resolved to 'following'
C6_Witness ==
  /\ buttons[1].mounted /\ buttons[2].mounted
  /\ buttons[1].topicName = buttons[2].topicName
  /\ queries[1].st = "delivered" /\ queries[2].st = "delivered"
  /\ toggles = <<>>
  /\ followStatus[buttons[1].topicName]

TheBill == [court |-> 193, billId |-> "H100"]

IsBillButton(b) == buttons[b].mounted /\ buttons[b].subject = [kind |-> "bill", item |-> TheBill]

\* C7: following bill {court: 193, billId: "H100"} issues a write of the document keyed
\* bill-193-H100 under the current user, with billLookup {billId: "H100", court: 193};
\* the write, once applied, leaves that document in the store; and the toggle sets
\* followStatus["bill-193-H100"] to true.
C7_FollowBill ==
  [][uid # Absent =>
       /\ \A b \in Buttons :
            (IsBillButton(b) /\ Issues(b) /\ toggles'[Len(toggles')].dir = "follow") =>
              LET w == writeQ'[Len(writeQ')]
              IN /\ w.op = "set" /\ w.path = uid /\ w.id = "bill-193-H100"
                 /\ w.data.billLookup = [billId |-> "H100", court |-> 193]
                 /\ toggles'[Len(toggles')].st = "done" => followStatus'["bill-193-H100"]
       /\ (/\ Len(writeQ') < Len(writeQ) /\ store' # store
           /\ Head(writeQ).op = "set" /\ IsBillButton(Head(writeQ).b)) =>
            \E d \in store'[uid] :
              /\ d.id = "bill-193-H100"
              /\ d.data.billLookup = [billId |-> "H100", court |-> 193]
       /\ \A a \in awaiting \ awaiting' :
            (/\ IsBillButton(a.b) /\ toggles[a.tid].dir = "follow"
             /\ toggles'[a.tid].st = "done") => followStatus'["bill-193-H100"]]_vars

\* C7 witness: a follow of the bill is done and written
C7_Witness ==
  /\ uid # Absent
  /\ toggles # <<>>
  /\ toggles[1] = [topicName |-> "bill-193-H100", dir |-> "follow", st |-> "done", wr |-> "ok"]
  /\ \E d \in store[uid] :
       d.id = "bill-193-H100" /\ d.data.billLookup = [billId |-> "H100", court |-> 193]
  /\ followStatus["bill-193-H100"]

\* the writes in the queue that toggleFollow call t issued
WritesOf(t) == {i \in 1..Len(writeQ) : writeQ[i].tid = t}

\* C8: a toggle issues its store write, then calls the caller's hook, and updates
\* followStatus[topic] only once the hook has completed: every toggle has issued its
\* write, a toggle whose hook is pending has not updated the status, and the status
\* takes the toggled value in the step in which the hook resolves.
C8_ToggleOrder ==
  /\ [](\A t \in 1..Len(toggles) :
          /\ (toggles[t].wr = "pending") <=> (Cardinality(WritesOf(t)) = 1)
          /\ toggles[t].wr # "pending" => WritesOf(t) = {}
          /\ toggles[t].dir = "follow" =>
               \A i \in WritesOf(t) : writeQ[i].op = "set"
          /\ toggles[t].dir = "unfollow" =>
               \A i \in WritesOf(t) : writeQ[i].op = "delete")
  /\ [](\A a \in awaiting : toggles[a.tid].st = "awaiting")
  /\ [][/\ \A a \in awaiting' \ awaiting : followStatus' = followStatus
        /\ \A a \in awaiting \ awaiting' :
             IF toggles'[a.tid].st = "done"
             THEN followStatus'[toggles[a.tid].topicName] = (toggles[a.tid].dir = "follow")
             ELSE followStatus' = followStatus]_vars

\* C8 witness: a hook is pending, its toggle's write is issued and the status unknown
C8_Witness ==
  \E a \in awaiting :
    /\ WritesOf(a.tid) # {}
    /\ toggles[a.tid].st = "awaiting"
    /\ toggles[a.tid].topicName \notin DOMAIN followStatus

\* C9: a confirm performs one toggle in the direction the dialog was opened for,
\* leaves followStatus[topic] flipped relative to its value when the dialog opened,
\* and closes the dialog.
C9_ConfirmDirection ==
  [][\A b \in Buttons :
       (buttons[b].mounted /\ buttons[b].showModal /\ Issues(b)) =>
         LET tg == toggles'[Len(toggles')]
         IN /\ Len(toggles') = Len(toggles) + 1
            /\ tg.dir = buttons[b].dialog
            /\ tg.st = "done" =>
                 /\ followStatus'[tg.topicName] = (buttons[b].dialog = "follow")
                 /\ ~buttons'[b].showModal]_vars

\* C10: the status update of a toggle does not wait for the store write: a completing
\* toggle sets followStatus[topic] to the toggled value whatever the state of its write,
\* and the settling of a write, failed or not, leaves followStatus as it is.
C10_Optimistic ==
  [][/\ \A t \in 1..Len(toggles') :
          (toggles'[t].st = "done" /\ (t > Len(toggles) \/ toggles[t].st # "done")) =>
            /\ toggles'[t].topicName \in DOMAIN followStatus'
            /\ followStatus'[toggles'[t].topicName] = (toggles'[t].dir = "follow")
     /\ Len(writeQ') < Len(writeQ) => followStatus' = followStatus]_vars

\* C10 witness: the write of a follow has failed and the status still says following
C10_Witness ==
  /\ Len(toggles) = 1
  /\ toggles[1].dir = "follow" /\ toggles[1].st = "done" /\ toggles[1].wr = "failed"
  /\ followStatus[toggles[1].topicName]
  /\ uid # Absent /\ ~HasDoc(uid, toggles[1].topicName)

\* C11: when the getFollowers RPC rejects, the followers list stays empty (no row is
\* rendered), setFollowerCount is not called, and the error is caught in the component:
\* it is logged once and does not propagate out of the effect.
C11_RpcRejectCaught ==
  followersTab.rpc = "rejected" =>
    /\ followersTab.followerIds = <<>>
    /\ \A b \in Buttons : ~buttons[b].mounted
    /\ followersTab.followerCount = Null
    /\ followersTab.logged = 1
    /\ ~followersTab.escaped

\* C11 witness: the RPC of a mounted tab has rejected
C11_Witness == followersTab.phase = "mounted" /\ followersTab.rpc = "rejected"

\* user u holds a user-follow record for user t, in either shape of userLookup
FollowsUser(u, t) ==
  \E d \in store[Template(u)] : IsTestimonyOf(d, u) /\ RowUser(d.data.userLookup) = t

\* C12: in the Followers tab, once the followers and the user's own follows have been
\* fetched, the row of every follower f shows the following indicator if the current
\* user follows f and the follow action otherwise.
C12_RowIndicator ==
  (/\ peerTab.followersQ.st = "delivered"
   /\ peerTab.myFollowsQ.st = "delivered"
   /\ peerTab.added = 0)
  => \A i \in 1..Len(peerTab.followers) :
       alreadyFollowing(peerTab.iFollowSet, peerTab.followers[i])
         <=> FollowsUser(uid, RowUser(peerTab.followers[i]))

\* the topic a subscription record is about
FollowedTopic(d) ==
  IF "topicName" \in DOMAIN d.data THEN d.data.topicName
  ELSE UserTopicName([profileId |-> RowUser(d.data.userLookup)])

\* C13: after any sequence of follows and unfollows, setFollow of the peer-follow
\* Followers tab included, the store holds at most one subscription record per
\* (follower, followed topic).
C13_OneRecordPerTopic ==
  \A p \in DOMAIN store : \A d1 \in store[p] : \A d2 \in store[p] :
    FollowedTopic(d1) = FollowedTopic(d2) => d1 = d2

\* C14: no state update is applied from a response that arrives after the component
\* that asked for it has been unmounted: once the Followers tab is unmounted, the late
\* response of getFollowers and of its rows' status queries change neither the
\* followers list, nor the page's follower count, nor the follow status map.
C14_NoUpdateAfterUnmount ==
  [][followersTab.phase = "unmounted" =>
       /\ followersTab'.followerIds = followersTab.followerIds
       /\ followersTab'.followerCount = followersTab.followerCount
       /\ followStatus' = followStatus]_vars

\* in the RPC Followers tab every row whose status query has answered shows
\* 'following' exactly if the store holds the user's record for that follower
FollowerRowsAgree ==
  \A b \in Buttons :
    (buttons[b].mounted /\ queries[b].st = "delivered") =>
      ((Label(followStatus, buttons[b]) = "following") <=> HasDoc(uid, buttons[b].topicName))

\* the list a topic's row belongs to
KindOfTopic(t, topicName) ==
  IF topicName \in RowTopics("bill", t.billsFollowing) THEN "bill" ELSE "testimony"

\* a toggle in the unfollow direction was made in this step
Unfollows == Len(toggles') > Len(toggles) /\ toggles'[Len(toggles')].dir = "unfollow"

\* C15: an unfollow made from a row of the Following tab clears the list of that row in
\* full and leaves the other list as it is, and a list takes a new non-empty value only
\* from the response of a listing query issued after the list was last cleared.
C15_ClearAndRefetch ==
  [][/\ Unfollows =>
          LET k == KindOfTopic(followingTab, toggles'[Len(toggles')].topicName)
          IN /\ ListOf(followingTab', k) = <<>>
             /\ \A o \in Kinds \ {k} : ListOf(followingTab', o) = ListOf(followingTab, o)
     /\ \A k \in Kinds :
          (ListOf(followingTab', k) # ListOf(followingTab, k) /\ ListOf(followingTab', k) # <<>>)
            => \E q \in followingTab.listQ \ followingTab'.listQ :
                 /\ q.kind = k /\ q.st = "answered"
                 /\ q.result = ListOf(followingTab', k)
                 /\ q.qid > followingTab.clearedAt[k]]_vars

\* C16: every response of a listing query replaces the displayed list: in the step that
\* processes the response of a bills (users) query, the bills (users) list becomes
\* exactly the items of the response, also when the response is empty.
C16_ResponseReplaces ==
  [][\A q \in followingTab.listQ \ followingTab'.listQ :
       q.st = "answered" => ListOf(followingTab', q.kind) = q.result]_vars

----------------------------------------------------------------------------
(* The shared follow status map is updated one key at a time *)

\* topics whose status query response reaches its .then in this step
DeliveredTopics ==
  {buttons[b].topicName :
     b \in {c \in 1..MaxButtons : queries[c].st = "answered" /\ queries'[c].st = "delivered"}}

\* topics of the toggleFollow calls that reach their setFollowStatus in this step
ToggledTopics ==
  {toggles'[i].topicName :
     i \in {j \in 1..Len(toggles') :
              /\ toggles'[j].st = "done"
              /\ (j > Len(toggles) \/ toggles[j].st # "done")}}

\* C17: every update of followStatus, from a status query response or from a toggle
\* of topic T, changes only the entry of T: the entry of every other topic U is
\* present before iff present after, with the same value, step after step.
C17_KeyedUpdate ==
  [][LET touched == DeliveredTopics \cup ToggledTopics
     IN /\ Cardinality(touched) <= 1
        /\ DOMAIN followStatus' = DOMAIN followStatus \cup touched
        /\ \A U \in DOMAIN followStatus \ touched : followStatus'[U] = followStatus[U]]_vars

\* two topics have an entry, with different values, after a toggle and a response
C17_Witness ==
  /\ \E i \in 1..Len(toggles) : toggles[i].st = "done"
  /\ \E b \in 1..MaxButtons : queries[b].st = "delivered"
  /\ \E T, U \in DOMAIN followStatus : followStatus[T] /\ ~followStatus[U]

----------------------------------------------------------------------------
(* What a button's status query resolves to *)

\* C18: the status query a button issues on mount for (uid, T) finds a result exactly
\* when, at the time the store evaluates it, the store holds a record for T under uid,
\* and its response sets followStatus[T] to true in that case and to false otherwise.
C18_StatusQueryResolves ==
  [][\A b \in 1..MaxButtons :
       /\ (queries[b].st = "sent" /\ queries'[b].st = "answered")
            => ((queries'[b].result # "") <=> HasDoc(uid, buttons[b].topicName))
       /\ (queries[b].st = "answered" /\ queries'[b].st = "delivered")
            => /\ buttons[b].topicName \in DOMAIN followStatus'
               /\ followStatus'[buttons[b].topicName] = (queries[b].result # "")]_vars

\* one mount query has resolved its topic to following and another to not following,
\* with no toggle made
C18_Witness ==
  /\ toggles = <<>>
  /\ \E b, c \in 1..MaxButtons :
       /\ queries[b].st = "delivered" /\ queries[c].st = "delivered"
       /\ buttons[b].topicName \in DOMAIN followStatus /\ followStatus[buttons[b].topicName]
       /\ buttons[c].topicName \in DOMAIN followStatus /\ ~followStatus[buttons[c].topicName]

----------------------------------------------------------------------------
(* FollowingQuery against the records followTopic writes *)

\* the elements of a sequence
Range(seq) == {seq[i] : i \in 1..Len(seq)}

\* C19: FollowingQuery(uid) returns, for the records written by followTopic under uid,
\* every bill record's billLookup in bills and every user-follow record's userLookup
\* in orgs: no followed bill and no followed user is missing from the result.
\* Stated of the records that a follow of this run has written and that are still stored.
C19_FollowingQueryComplete ==
  uid # Absent =>
    LET results == FollowingQuery(store, uid)
        written == {toggles[i].topicName :
                      i \in {j \in 1..Len(toggles) :
                               toggles[j].dir = "follow" /\ toggles[j].wr = "ok"}}
    IN \A d \in {e \in store[setSubscriptionRef(uid)] : e.id \in written} :
         /\ d.data.type = "bill" => d.data.billLookup \in Range(results.bills)
         /\ d.data.type = "testimony" => d.data.userLookup \in Range(results.orgs)

----------------------------------------------------------------------------
(* The displayed status against the store, at rest *)

\* no write, hook or status query response is outstanding
AtRest ==
  /\ writeQ = <<>>
  /\ awaiting = {}
  /\ \A b \in 1..MaxButtons : ~InFlight(b)

\* no write or read was rejected by the transport and no hook has failed
NoFailure ==
  /\ \A i \in 1..Len(toggles) : toggles[i].wr # "failed" /\ toggles[i].st # "aborted"
  /\ \A b \in 1..MaxButtons : queries[b].st # "failed"

\* C20: with no transport failure and no failing hook, whenever no store operation,
\* hook or query response is pending, followStatus[T] of every resolved topic T tells
\* whether the store holds a record for the current user and T.
C20_StatusMatchesStore ==
  (uid # Absent /\ AtRest /\ NoFailure)
    => \A T \in DOMAIN followStatus : followStatus[T] = HasDoc(uid, T)

----------------------------------------------------------------------------
(* The Following tab after an unfollow, once everything has settled *)

\* C21: after an unfollow of topic T from the Following tab, once every write has been
\* applied and every listing query has been answered and processed, the lists of the
\* tab do not show T, however the un-awaited delete and the refetch interleave.
C21_UnfollowedNotRelisted ==
  (/\ followingTab.phase = "mounted"
   /\ writeQ = <<>>
   /\ followingTab.listQ = {}
   /\ \A i \in 1..Len(toggles) : toggles[i].wr = "ok")
    => \A i \in 1..Len(toggles) :
         toggles[i].dir = "unfollow" => toggles[i].topicName \notin Displayed(followingTab)

----------------------------------------------------------------------------
(* Two activations of one button, the second while the first awaits its hook *)

\* toggle a waits for its caller's hook, on a button whose status query had resolved
\* before the toggle started, that asks for no confirmation and is the only mounted
\* button of its topic, with a session
AwaitsUnconfirmed(a) ==
  /\ uid # Absent
  /\ toggles[a.tid].st = "awaiting"
  /\ ~a.modal
  /\ a.seen = {} /\ queries[a.b].st = "delivered"
  /\ ~buttons[a.b].confirmFollow /\ ~buttons[a.b].confirmUnfollow
  /\ \A c \in Mounted \ {a.b} : buttons[c].topicName # buttons[a.b].topicName

\* C22: two activations of one follow button without confirmation, the second made
\* while the first toggle's hook is pending, each flip the status: the second issues
\* the write of the opposite direction (one follow and one unfollow), and when the
\* first toggle completes after the second, followStatus[topic] is what it was before
\* the first activation.
C22_OverlappingTogglesFlip ==
  [][\A a \in awaiting :
       AwaitsUnconfirmed(a) =>
         /\ (Len(toggles') > Len(toggles) /\ Issues(a.b))
              => toggles'[Len(toggles')].dir # toggles[a.tid].dir
         /\ (/\ a.tid = 1 /\ Len(toggles) = 2
             /\ toggles[2].topicName = toggles[1].topicName /\ toggles[2].st = "done"
             /\ toggles'[1].st = "done")
              => followStatus'[toggles[1].topicName] = (toggles[1].dir = "unfollow")]_vars

----------------------------------------------------------------------------
(* The Following tab left alone comes to rest *)

\* no listing query and no row status query is in flight, so no response is left that
\* could set a list and render the tab again
Quiet == followingTab.listQ = {} /\ followingTab.rowQ = {}

\* C23: with a fixed session, an unchanging store and no user action, a mounted
\* Following tab issues finitely many listing queries (fewer than the bound of the
\* model) and comes to rest for good: no query in flight, no update or render to come,
\* whether the user follows nothing or something.
C23_TabComesToRest ==
  /\ [](followingTab.issued < MaxListQueries)
  /\ [](followingTab.phase = "mounted" => <>[]Quiet)

\* the tab of a user who follows a bill and a user is at rest with both lists shown,
\* after the queries of more than one render
C23_Witness ==
  /\ followingTab.phase = "mounted" /\ Quiet
  /\ followingTab.billsFollowing # <<>> /\ followingTab.usersFollowing # <<>>
  /\ followingTab.issued > 3

----------------------------------------------------------------------------
(* The peer-follow tab: setFollow calls that overlap *)

\* the targets of the documents setFollow has added for the current user
AddedTargets ==
  {d.data.userLookup.uid :
     d \in {e \in store[Template(uid)] : e.id \in {AutoId(n) : n \in 1..MaxAdds}}}

\* C24: in the peer-follow Followers tab, once setFollow has completed for two distinct
\* targets A and B, in any interleaving of the two calls and their writes, iFollowSet
\* holds both A and B (stated while the response of the own-follows query has not
\* replaced the set); and a setFollow for a target whose follow is already under way
\* issues no second write.
C24_OverlappingSetFollow ==
  [][/\ (/\ peerTab'.pending = <<>>
         /\ peerTab'.myFollowsQ.st # "delivered"
         /\ Cardinality(AddedTargets') = 2)
          => AddedTargets' \subseteq peerTab'.iFollowSet
     /\ Len(peerTab'.pending) > Len(peerTab.pending)
          => peerTab'.pending[Len(peerTab'.pending)].targetUid
               \notin {peerTab.pending[k].targetUid : k \in 1..Len(peerTab.pending)}]_vars

====
